---- MODULE Spec2Model ----
(***************************************************************************)
(* Model of src/server.py (HazelNote): the transcript chain                *)
(* (get_transcript, fetch_invidious_transcript), the document path         *)
(* (analyze_pdf, extract_pdf_text), the generation pipeline                *)
(* (generate_study_data, try_generate) and the four endpoints.             *)
(*                                                                         *)
(* A Python str is a sequence of tokens.  A token is one character or one  *)
(* fixed multi-character marker of the code ("-->", "WEBVTT", "Error:",    *)
(* "===SPLIT===", ...).  " " and "\n" are the whitespace tokens.           *)
(*                                                                         *)
(* The endpoints are `async def` coroutines served by one uvicorn event    *)
(* loop (server.py:237-239).  A coroutine keeps the loop until it awaits   *)
(* or returns; the only await in a handler body is `await file.read()` in  *)
(* analyze_pdf (server.py:225).  `loop` is the request that holds the      *)
(* event loop (0 when it is free).                                         *)
(***************************************************************************)
EXTENDS Integers, Sequences, FiniteSets, TLC

\* ------------------------------------------------------------------ bounds
NumReqs == 2

Reqs == 1..NumReqs

\* ------------------------------------------------------- program constants
MinKeyLen == 10
VideoIdLen == 11
NumInstances == 4
NotesCeiling == 60000
ExtrasCeiling == 40000
RawCeiling == 20000

\* ------------------------------------------------------------ Python values
\* Python's None: a value different from every str (no str holds this token).
None == <<"None">>

\* Python truthiness of an Optional[str]: None and "" are falsy.
Truthy(x) == x # None /\ x # <<>>

IsWS(c) == c \in {" ", "\n"}

Min(a, b) == IF a < b THEN a ELSE b

\* s[:n]
Prefix(s, n) == SubSeq(s, 1, Min(n, Len(s)))

\* tok in s
Contains(s, tok) == \E i \in 1..Len(s) : s[i] = tok

\* s.startswith(tok)
StartsWith(s, tok) == Len(s) > 0 /\ s[1] = tok

RECURSIVE LStrip(_)
LStrip(s) == IF s # <<>> /\ IsWS(Head(s)) THEN LStrip(Tail(s)) ELSE s

RECURSIVE RStrip(_)
RStrip(s) ==
  IF s # <<>> /\ IsWS(s[Len(s)]) THEN RStrip(SubSeq(s, 1, Len(s) - 1)) ELSE s

\* s.strip()
Strip(s) == RStrip(LStrip(s))

\* re.sub(r'\s+', ' ', s): every maximal run of whitespace becomes one " ".
RECURSIVE CollapseWS(_)
CollapseWS(s) ==
  IF s = <<>> THEN <<>>
  ELSE IF IsWS(Head(s)) THEN <<" ">> \o CollapseWS(LStrip(s))
  ELSE <<Head(s)>> \o CollapseWS(Tail(s))

clean_text(text) == Strip(CollapseWS(text))

\* sep.join(parts) for a one-token separator
RECURSIVE Join(_, _)
Join(parts, sep) ==
  IF parts = <<>> THEN <<>>
  ELSE IF Len(parts) = 1 THEN parts[1]
  ELSE parts[1] \o <<sep>> \o Join(Tail(parts), sep)

\* s.split(tok): the pieces between the occurrences of tok (never empty list)
RECURSIVE SplitAcc(_, _, _)
SplitAcc(s, tok, cur) ==
  IF s = <<>> THEN <<cur>>
  ELSE IF Head(s) = tok THEN <<cur>> \o SplitAcc(Tail(s), tok, <<>>)
  ELSE SplitAcc(Tail(s), tok, Append(cur, Head(s)))

Split(s, tok) == SplitAcc(s, tok, <<>>)

\* s.splitlines(): like split("\n") but "" gives [] and a final "\n" opens
\* no empty last line.
SplitLines(s) ==
  IF s = <<>> THEN <<>>
  ELSE LET p == Split(s, "\n")
       IN  IF p[Len(p)] = <<>> THEN SubSeq(p, 1, Len(p) - 1) ELSE p

\* list(dict.fromkeys(xs)): first occurrence of every element, in order
RECURSIVE DedupAcc(_, _)
DedupAcc(xs, seen) ==
  IF xs = <<>> THEN <<>>
  ELSE IF Head(xs) \in seen THEN DedupAcc(Tail(xs), seen)
  ELSE <<Head(xs)>> \o DedupAcc(Tail(xs), seen \cup {Head(xs)})

Dedup(xs) == DedupAcc(xs, {})

\* [x.strip() for x in xs]
StripAll(xs) == [i \in 1..Len(xs) |-> Strip(xs[i])]

\* server.py:74  the line filter of Provider B
KeepB(line) ==
  /\ ~Contains(line, "-->")
  /\ Strip(line) # <<>>
  /\ ~StartsWith(line, "WEBVTT")
  /\ ~StartsWith(line, "Kind:")

\* server.py:108  the line filter of Provider C
KeepC(l) ==
  /\ ~Contains(l, "-->")
  /\ Strip(l) # <<>>
  /\ ~(StartsWith(l, "WEBVTT") \/ StartsWith(l, "Kind:") \/ StartsWith(l, "Language:"))

\* server.py:73-75  what fetch_invidious_transcript returns for a payload
ProxyParse(vtt_text) == Join(Dedup(StripAll(SelectSeq(SplitLines(vtt_text), KeepB))), " ")

\* server.py:108-109  what Provider C returns for the file content
VttParse(content) ==
  clean_text(Join(Dedup(StripAll(SelectSeq(SplitLines(content), KeepC))), " "))

\* ------------------------------------------------------------ request inputs
\* A string of n key characters.
Key(n) == [i \in 1..n |-> "k"]

\* The x_gemini_api_key header: missing (None), "", "null", 9 and 10 characters.
Creds == {None, <<>>, <<"n", "u", "l", "l">>, Key(MinKeyLen - 1), Key(MinKeyLen)}

\* A URL, cut at the places the regex of get_video_id looks at: the host part,
\* what stands between host and identifier, and the run of identifier
\* characters [a-zA-Z0-9_-] that follows.
Urls ==
  { [host |-> "youtube.com/", mid |-> "watch?v=",       id |-> Key(VideoIdLen)],
    [host |-> "youtu.be/",    mid |-> "",               id |-> Key(VideoIdLen + 1)],
    [host |-> "youtube.com/", mid |-> "watch?v=",       id |-> Key(VideoIdLen - 1)],
    [host |-> "youtube.com/", mid |-> "playlist?list=", id |-> Key(VideoIdLen)],
    [host |-> "vimeo.com/",   mid |-> "",               id |-> Key(VideoIdLen)] }

\* server.py:39-42
get_video_id(url) ==
  LET shape ==
        \/ /\ url.host = "youtube.com/"
           /\ url.mid \in {"watch?v=", "v/", "e/", "embed/", "user/name/"}
        \/ /\ url.host = "youtu.be/"
           /\ url.mid = ""
  IN  IF shape /\ Len(url.id) >= VideoIdLen THEN Prefix(url.id, VideoIdLen) ELSE None

\* The text of analyze_text requests.
Texts == { <<>>, <<" ">>, <<"a">>, <<"a", " ", " ", "b">> }

FileNames == {"notes.pdf"}

\* An uploaded document: can pypdf open it, and what extract_text gives for
\* each page (None when the page has no extractable text).
Docs ==
  { [ok |-> TRUE,  pages |-> << <<"a">>, <<"b", " ">> >>],
    [ok |-> TRUE,  pages |-> << <<"a">>, None >>],
    [ok |-> FALSE, pages |-> << >>] }

\* The content of a file that open(..., "wb") has just created or truncated.
EmptyDoc == [ok |-> FALSE, pages |-> << >>]

Kinds == {"video", "text", "pdf", "chat"}

NoInput ==
  [kind |-> "none", cred |-> None, url |-> [host |-> "", mid |-> "", id |-> <<>>],
   text |-> <<>>, fname |-> "notes.pdf", doc |-> EmptyDoc]

Inputs ==
  {[NoInput EXCEPT !.kind = "video", !.cred = c, !.url = u] : c \in Creds, u \in Urls}
  \cup {[NoInput EXCEPT !.kind = "text", !.cred = c, !.text = t] : c \in Creds, t \in Texts}
  \cup {[NoInput EXCEPT !.kind = "pdf", !.cred = c, !.fname = f, !.doc = d] :
          c \in Creds, f \in FileNames, d \in Docs}
  \cup {[NoInput EXCEPT !.kind = "chat", !.cred = c, !.text = t] : c \in Creds, t \in {<<"a">>}}

\* --------------------------------------------- answers of the collaborators
\* YouTubeTranscriptApi.get_transcript: the 'text' of the returned items.
AFrags ==
  { << >>,
    << <<"a">> >>,
    << <<"a", " ">>, <<"b">> >> }

\* Subtitle payloads served by a proxy or written by yt-dlp.
Payloads ==
  { <<"WEBVTT", "\n", "\n">>,
    <<"WEBVTT", "\n", "Kind:", "\n", "Language:", "\n", "\n",
      "-->", "\n", "a", "\n", "\n", "-->", "\n", "a", " ", "\n", "-->", "\n", "b", " ", " ", "c", "\n">> }

\* requests.get(.../api/v1/videos/<id>, timeout=5), server.py:58-66
MetaOutcomes ==
  {"refused", "timeout", "status", "badjson", "nocaptions", "badcaptions", "noen", "track"}

\* requests.get(<caption url>, timeout=5), server.py:69-70
CapOutcomes == {"refused", "timeout", "status", "ok"}

\* subprocess.run(yt-dlp ..., check=True), server.py:103-104
RunOutcomes == {"notfound", "fail", "fail_file", "ok", "ok_file", "hang"}

\* ------------------------------------------------------------------- state
VARIABLES
  pc,          \* where each request's handler stands
  inp,         \* the request
  loop,        \* the request that holds the event loop, 0 when free
  vid,         \* get_transcript: video_id
  bi,          \* fetch_invidious_transcript: index of the current instance
  transcript,  \* what get_transcript / extract_pdf_text returned
  g,           \* locals of generate_study_data
  h,           \* analyze_pdf: the open handle still refers to the file at the path
  resp,        \* the response of the handler
  vtt,         \* the file transcript.en.vtt
  tmp,         \* the files temp_<filename>
  own,         \* history: the in-flight request that created each file
  log          \* history: the external calls and file operations of the pipeline
               \* function in progress (the source stage, then generate_study_data),
               \* each with what the call yielded (None when it yielded nothing)

\* One parsing function of the module applied on its own to an argument.
VARIABLES
  fn,          \* which function
  fnarg,       \* its argument
  fnout,       \* what it returned
  fnret        \* whether it has returned

vars == <<pc, inp, loop, vid, bi, transcript, g, h, resp, vtt, tmp, own, log>>
pvars == <<fn, fnarg, fnout, fnret>>

NoFile == [present |-> FALSE, data |-> <<>>]
NoTmp == [present |-> FALSE, data |-> EmptyDoc]
NoResp == [status |-> 0, body |-> [pending |-> TRUE]]
NoGen ==
  [text |-> <<>>, raw_notes |-> <<>>, summary |-> <<>>, notes |-> <<>>,
   flashcards |-> <<>>, quiz |-> <<>>]

VttPath == "transcript.en.vtt"
Paths == {VttPath} \cup FileNames

\* The server after start-up: no request, no file.
ServerInit ==
  /\ pc = [r \in Reqs |-> "idle"]
  /\ inp = [r \in Reqs |-> NoInput]
  /\ loop = 0
  /\ vid = [r \in Reqs |-> None]
  /\ bi = [r \in Reqs |-> 0]
  /\ transcript = [r \in Reqs |-> None]
  /\ g = [r \in Reqs |-> NoGen]
  /\ h = [r \in Reqs |-> FALSE]
  /\ resp = [r \in Reqs |-> NoResp]
  /\ vtt = NoFile
  /\ tmp = [f \in FileNames |-> NoTmp]
  /\ own = [p \in Paths |-> 0]
  /\ log = [r \in Reqs |-> << >>]

Init ==
  /\ ServerInit
  /\ fn = "none"
  /\ fnarg = << >>
  /\ fnout = << >>
  /\ fnret = FALSE

Ev(op, n, arg) == [op |-> op, n |-> n, arg |-> arg]

\* The handler of r returns: it gives up the event loop and the files it
\* created stop being files of an in-flight request.
ReturnWith(r, response, o) ==
  /\ resp' = [resp EXCEPT ![r] = response]
  /\ pc' = [pc EXCEPT ![r] = "done"]
  /\ loop' = 0
  /\ own' = [p \in Paths |-> IF o[p] = r THEN 0 ELSE o[p]]

Return(r, response) == ReturnWith(r, response, own)

\* Variant of BadKey: the length test is off by one.
BadKeyShort(api_key) ==
  api_key = None \/ api_key = <<>> \/ api_key = <<"n", "u", "l", "l">>
    \/ Len(api_key) < MinKeyLen - 1

\* server.py:31-34
BadKey(api_key) ==
  api_key = None \/ api_key = <<>> \/ api_key = <<"n", "u", "l", "l">> \/ Len(api_key) < MinKeyLen

\* A request arrives and the event loop starts its handler, whose first
\* statement is get_client (server.py:210, 218, 223, 233).
\* A finished request leaves its slot (Deliver) before the loop starts or
\* resumes another handler: the slot only keeps the response for inspection.
get_client(r) ==
  /\ pc[r] = "idle"
  /\ loop = 0
  /\ \A q \in Reqs : pc[q] # "done"
  /\ \E i \in Inputs :
       /\ inp' = [inp EXCEPT ![r] = i]
       /\ IF BadKey(i.cred)
            THEN /\ Return(r, [status |-> 401, body |-> [detail |-> "key"]])
                 /\ UNCHANGED <<g>>
            ELSE /\ loop' = r
                 /\ pc' = [pc EXCEPT ![r] =
                      CASE i.kind = "video" -> "gt"
                        [] i.kind = "text" -> "g1"
                        [] i.kind = "pdf" -> "open"
                        [] OTHER -> "chat"]
                 /\ g' = [g EXCEPT ![r].text = i.text]
                 /\ UNCHANGED <<resp, own>>
  /\ UNCHANGED <<vid, bi, transcript, h, vtt, tmp, log>>
  /\ UNCHANGED pvars

\* Variant of get_transcript: the `if not video_id` return is missing.
get_transcript_unchecked(r) ==
  /\ pc[r] = "gt"
  /\ vid' = [vid EXCEPT ![r] = get_video_id(inp[r].url)]
  /\ pc' = [pc EXCEPT ![r] = "A"]
  /\ UNCHANGED <<inp, loop, bi, transcript, g, h, resp, vtt, tmp, own, log>>
  /\ UNCHANGED pvars

\* server.py:82-85
get_transcript(r) ==
  /\ pc[r] = "gt"
  /\ vid' = [vid EXCEPT ![r] = get_video_id(inp[r].url)]
  /\ IF get_video_id(inp[r].url) = None
       THEN /\ transcript' = [transcript EXCEPT ![r] = None]
            /\ pc' = [pc EXCEPT ![r] = "av"]
       ELSE /\ pc' = [pc EXCEPT ![r] = "A"]
            /\ UNCHANGED transcript
  /\ UNCHANGED <<inp, loop, bi, g, h, resp, vtt, tmp, own, log>>
  /\ UNCHANGED pvars

\* server.py:87-92  Provider A.  The call has no timeout: an API that never
\* answers leaves the handler inside the call.
ProviderA(r) ==
  /\ pc[r] = "A"
  /\ \/ \E frags \in AFrags :
          /\ log' = [log EXCEPT ![r] = Append(@, Ev("A", 0, Join(frags, " ")))]
          /\ transcript' = [transcript EXCEPT ![r] = clean_text(Join(frags, " "))]
          /\ pc' = [pc EXCEPT ![r] = "av"]
          /\ UNCHANGED bi
     \/ /\ log' = [log EXCEPT ![r] = Append(@, Ev("A", 0, None))]
        /\ pc' = [pc EXCEPT ![r] = "Bmeta"]
        /\ bi' = [bi EXCEPT ![r] = 1]
        /\ UNCHANGED transcript
     \/ /\ log' = [log EXCEPT ![r] = Append(@, Ev("A", 0, None))]
        /\ pc' = [pc EXCEPT ![r] = "hung"]
        /\ UNCHANGED <<transcript, bi>>
  /\ UNCHANGED <<inp, loop, vid, g, h, resp, vtt, tmp, own>>
  /\ UNCHANGED pvars

\* server.py:54, 79-80, 96-97  the next instance, or the end of the list:
\* fetch_invidious_transcript returns None and get_transcript goes on to yt-dlp.
NextInstance(r) ==
  IF bi[r] < NumInstances
    THEN /\ bi' = [bi EXCEPT ![r] = @ + 1]
         /\ pc' = [pc EXCEPT ![r] = "Bmeta"]
    ELSE /\ pc' = [pc EXCEPT ![r] = "Cpre"]
         /\ UNCHANGED bi

\* Variant of ProxyMeta: meta_res.json() stands outside the try block, so a
\* body that is not JSON ends the request with an exception.
ProxyMetaRaising(r) ==
  /\ pc[r] = "Bmeta"
  /\ log' = [log EXCEPT ![r] = Append(@, Ev("B", bi[r], None))]
  /\ \E o \in MetaOutcomes :
       CASE o = "track" ->
              /\ pc' = [pc EXCEPT ![r] = "Bcap"]
              /\ UNCHANGED <<bi, resp, loop, own>>
         [] o = "badjson" ->
              /\ Return(r, [status |-> 500, body |-> [exception |-> "JSONDecodeError"]])
              /\ UNCHANGED bi
         [] OTHER ->
              /\ NextInstance(r)
              /\ UNCHANGED <<resp, loop, own>>
  /\ UNCHANGED <<inp, vid, transcript, g, h, vtt, tmp>>
  /\ UNCHANGED pvars

\* server.py:54-66  one pass of the loop starts: the metadata request of
\* instance bi.  The log gets one entry for each instance that is tried.
ProxyMeta(r) ==
  /\ pc[r] = "Bmeta"
  /\ log' = [log EXCEPT ![r] = Append(@, Ev("B", bi[r], None))]
  /\ \E o \in MetaOutcomes :
       IF o = "track"
         THEN /\ pc' = [pc EXCEPT ![r] = "Bcap"]
              /\ UNCHANGED bi
         ELSE NextInstance(r)
  /\ UNCHANGED <<inp, loop, vid, transcript, g, h, resp, vtt, tmp, own>>
  /\ UNCHANGED pvars

\* Variant of ProxyCaption: the chain does not stop at the proxy's text and
\* goes on to yt-dlp.
ProxyCaptionNoStop(r) ==
  /\ pc[r] = "Bcap"
  /\ \E o \in CapOutcomes :
       IF o = "ok"
         THEN \E p \in Payloads :
                /\ log' = [log EXCEPT ![r][Len(log[r])].arg = p]
                /\ transcript' = [transcript EXCEPT ![r] = clean_text(ProxyParse(p))]
                /\ pc' = [pc EXCEPT ![r] = "Cpre"]
                /\ UNCHANGED bi
         ELSE /\ NextInstance(r)
              /\ UNCHANGED <<transcript, log>>
  /\ UNCHANGED <<inp, loop, vid, g, h, resp, vtt, tmp, own>>
  /\ UNCHANGED pvars

\* server.py:69-75, 96-97  the caption request of instance bi; a payload
\* ends fetch_invidious_transcript, and get_transcript returns it if truthy.
ProxyCaption(r) ==
  /\ pc[r] = "Bcap"
  /\ \E o \in CapOutcomes :
       IF o = "ok"
         THEN \E p \in Payloads :
                /\ log' = [log EXCEPT ![r][Len(log[r])].arg = p]
                /\ IF Truthy(ProxyParse(p))
                     THEN /\ transcript' = [transcript EXCEPT ![r] = clean_text(ProxyParse(p))]
                          /\ pc' = [pc EXCEPT ![r] = "av"]
                          /\ UNCHANGED bi
                     ELSE /\ pc' = [pc EXCEPT ![r] = "Cpre"]
                          /\ UNCHANGED <<bi, transcript>>
         ELSE /\ NextInstance(r)
              /\ UNCHANGED <<transcript, log>>
  /\ UNCHANGED <<inp, loop, vid, g, h, resp, vtt, tmp, own>>
  /\ UNCHANGED pvars

\* Provider C without the os.remove of server.py:102: a subtitle file found
\* in the working directory stays.
YtDlpPrepareKeep(r) ==
  /\ pc[r] = "Cpre"
  /\ pc' = [pc EXCEPT ![r] = "Crun"]
  /\ UNCHANGED <<inp, loop, vid, bi, transcript, g, h, resp, tmp, vtt, own, log>>
  /\ UNCHANGED pvars

\* server.py:99-102  Provider C starts: a subtitle file found in the working
\* directory is removed.
YtDlpPrepare(r) ==
  /\ pc[r] = "Cpre"
  /\ IF vtt.present
       THEN /\ vtt' = NoFile
            /\ own' = [own EXCEPT ![VttPath] = 0]
            /\ log' = [log EXCEPT ![r] = Append(@, Ev("rm_vtt", own[VttPath], <<>>))]
       ELSE UNCHANGED <<vtt, own, log>>
  /\ pc' = [pc EXCEPT ![r] = "Crun"]
  /\ UNCHANGED <<inp, loop, vid, bi, transcript, g, h, resp, tmp>>
  /\ UNCHANGED pvars

\* server.py:103-105, 110-112  the yt-dlp process.  It may be missing, exit
\* non-zero before or after it wrote the subtitle file, exit 0 with or without
\* the file, or never exit: subprocess.run is given no timeout.
YtDlpRun(r) ==
  /\ pc[r] = "Crun"
  /\ log' = [log EXCEPT ![r] = Append(@, Ev("ytdlp", 0, None))]
  /\ \E o \in RunOutcomes :
       CASE o \in {"notfound", "fail"} ->
              /\ transcript' = [transcript EXCEPT ![r] = None]
              /\ pc' = [pc EXCEPT ![r] = "av"]
              /\ UNCHANGED <<vtt, own>>
         [] o = "ok" ->
              /\ IF vtt.present
                   THEN /\ pc' = [pc EXCEPT ![r] = "Cread"]
                        /\ UNCHANGED transcript
                   ELSE /\ transcript' = [transcript EXCEPT ![r] = None]
                        /\ pc' = [pc EXCEPT ![r] = "av"]
              /\ UNCHANGED <<vtt, own>>
         [] o = "fail_file" ->
              /\ \E p \in Payloads : vtt' = [present |-> TRUE, data |-> p]
              /\ own' = [own EXCEPT ![VttPath] = r]
              /\ transcript' = [transcript EXCEPT ![r] = None]
              /\ pc' = [pc EXCEPT ![r] = "av"]
         [] o = "ok_file" ->
              /\ \E p \in Payloads : vtt' = [present |-> TRUE, data |-> p]
              /\ own' = [own EXCEPT ![VttPath] = r]
              /\ pc' = [pc EXCEPT ![r] = "Cread"]
              /\ UNCHANGED transcript
         [] OTHER ->
              /\ pc' = [pc EXCEPT ![r] = "hung"]
              /\ UNCHANGED <<vtt, own, transcript>>
  /\ UNCHANGED <<inp, loop, vid, bi, g, h, resp, tmp>>
  /\ UNCHANGED pvars

\* server.py:106-112  the subtitle file exists: read it, remove it, parse it.
\* A read that raises (I/O error, bytes that are not UTF-8) leaves the
\* function through `except: pass` before os.remove.
YtDlpRead(r) ==
  /\ pc[r] = "Cread"
  /\ vtt.present
  /\ \/ /\ log' = [log EXCEPT ![r] = Append(@, Ev("read_vtt", own[VttPath], None))]
        /\ transcript' = [transcript EXCEPT ![r] = None]
        /\ UNCHANGED <<vtt, own>>
     \/ /\ log' = [log EXCEPT ![r] =
                     @ \o <<Ev("read_vtt", own[VttPath], vtt.data), Ev("rm_vtt", own[VttPath], <<>>)>>]
        /\ transcript' = [transcript EXCEPT ![r] = VttParse(vtt.data)]
        /\ vtt' = NoFile
        /\ own' = [own EXCEPT ![VttPath] = 0]
  /\ pc' = [pc EXCEPT ![r] = "av"]
  /\ UNCHANGED <<inp, loop, vid, bi, g, h, resp, tmp>>
  /\ UNCHANGED pvars

\* server.py:211-214
analyze_video(r) ==
  /\ pc[r] = "av"
  /\ IF ~Truthy(transcript[r])
       THEN /\ Return(r, [status |-> 422, body |-> [error |-> <<"blocked">>]])
            /\ UNCHANGED g
       ELSE /\ g' = [g EXCEPT ![r].text = transcript[r]]
            /\ pc' = [pc EXCEPT ![r] = "g1"]
            /\ UNCHANGED <<resp, loop, own>>
  /\ vid' = [vid EXCEPT ![r] = None]
  /\ bi' = [bi EXCEPT ![r] = 0]
  /\ log' = [log EXCEPT ![r] = IF Truthy(transcript[r]) THEN << >> ELSE @]
  /\ UNCHANGED <<inp, transcript, h, vtt, tmp>>
  /\ UNCHANGED pvars

\* extract_pdf_text with the try block inside the page loop: a page that
\* fails is skipped and the text of the other pages is returned.
extract_pdf_text_partial(file) ==
  IF ~file.present \/ ~file.data.ok
    THEN None
    ELSE LET good == SelectSeq(file.data.pages, LAMBDA pg : pg # None)
         IN  clean_text(Join(good, "\n") \o (IF good = <<>> THEN <<>> ELSE <<"\n">>))

\* server.py:114-121
extract_pdf_text(file) ==
  IF ~file.present \/ ~file.data.ok \/ (\E i \in 1..Len(file.data.pages) : file.data.pages[i] = None)
    THEN None
    ELSE clean_text(Join([i \in 1..Len(file.data.pages) |-> file.data.pages[i]], "\n")
                    \o (IF file.data.pages = <<>> THEN <<>> ELSE <<"\n">>))

\* server.py:224-225  open(temp_filename, "wb") creates or truncates the
\* file; then the handler awaits file.read() and may give up the event loop.
PdfOpen(r) ==
  /\ pc[r] = "open"
  /\ LET f == inp[r].fname IN
       /\ tmp' = [tmp EXCEPT ![f] = [present |-> TRUE, data |-> EmptyDoc]]
       /\ own' = [own EXCEPT ![f] = IF @ = 0 THEN r ELSE @]
       /\ log' = [log EXCEPT ![r] = Append(@, Ev("open_tmp", own[f], <<>>))]
  /\ h' = [h EXCEPT ![r] = TRUE]
  /\ \/ /\ pc' = [pc EXCEPT ![r] = "await"]
        /\ loop' = 0
     \/ /\ pc' = [pc EXCEPT ![r] = "write"]
        /\ UNCHANGED loop
  /\ UNCHANGED <<inp, vid, bi, transcript, g, resp, vtt>>
  /\ UNCHANGED pvars

\* The event loop resumes the handler that awaited file.read().
PdfResume(r) ==
  /\ pc[r] = "await"
  /\ loop = 0
  /\ \A q \in Reqs : pc[q] # "done"
  /\ loop' = r
  /\ pc' = [pc EXCEPT ![r] = "write"]
  /\ UNCHANGED <<inp, vid, bi, transcript, g, h, resp, vtt, tmp, own, log>>
  /\ UNCHANGED pvars

\* server.py:225  buffer.write(...) and the end of the with block.  The
\* bytes reach the file at the path only if the handle still refers to it.
\* file.read() or write() may raise: the handler ends with the file in place.
PdfWrite(r) ==
  /\ pc[r] = "write"
  /\ LET f == inp[r].fname IN
       \/ /\ Return(r, [status |-> 500, body |-> [exception |-> "OSError"]])
          /\ UNCHANGED <<tmp, log>>
       \/ /\ tmp' = [tmp EXCEPT ![f] =
                       IF h[r] /\ @.present THEN [present |-> TRUE, data |-> inp[r].doc] ELSE @]
          /\ log' = [log EXCEPT ![r] = Append(@, Ev("write_tmp", own[f], <<>>))]
          /\ pc' = [pc EXCEPT ![r] = "extract"]
          /\ UNCHANGED <<resp, loop, own>>
  /\ UNCHANGED <<inp, vid, bi, transcript, g, h, vtt>>
  /\ UNCHANGED pvars

\* server.py:226-229
PdfExtract(r) ==
  /\ pc[r] = "extract"
  /\ LET f == inp[r].fname
         text == extract_pdf_text(tmp[f])
         o == IF tmp[f].present THEN [own EXCEPT ![f] = 0] ELSE own
     IN
       /\ transcript' = [transcript EXCEPT ![r] = text]
       /\ log' = [log EXCEPT ![r] =
                    IF Truthy(text) THEN << >>
                    ELSE @ \o <<Ev("read_tmp", own[f], <<>>)>>
                           \o (IF tmp[f].present THEN <<Ev("rm_tmp", own[f], <<>>)>> ELSE <<>>)]
       /\ tmp' = [tmp EXCEPT ![f] = NoTmp]
       /\ h' = [q \in Reqs |-> IF inp[q].fname = f /\ tmp[f].present THEN FALSE ELSE h[q]]
       /\ IF ~Truthy(text)
            THEN /\ ReturnWith(r, [status |-> 400, body |-> [error |-> <<"unreadable">>]], o)
                 /\ UNCHANGED g
            ELSE /\ g' = [g EXCEPT ![r].text = text]
                 /\ pc' = [pc EXCEPT ![r] = "g1"]
                 /\ own' = o
                 /\ UNCHANGED <<resp, loop>>
  /\ UNCHANGED <<inp, vid, bi, vtt>>
  /\ UNCHANGED pvars

\* ---------------------------------------------------------------- generation
\* The completion-failure text f"Error: {str(e)}" of try_generate.
ErrText == <<"Error:", " ", "x">>

\* server.py:123-130  what a completion call can return: the text of the
\* response, None when the response carries no text (response.text), or the
\* failure text when generate_content raised.
try_generate(texts) == texts \cup {None, ErrText}

\* Texts the completion service may generate in each stage.
Gen1Texts ==
  { <<"s", " ", "===SPLIT===", " ", "n", "\n">>,
    <<" ", "s">>,
    <<"s", " ", "Error:", "===SPLIT===", "n">> }

Gen2Texts ==
  { <<"===FLASHCARDS===", "\n", "Front:", " ", "f", " ", "|", " ", "Back:", " ", "b", "\n",
      "x", "\n",
      "===QUIZ===", "\n", "Q:", " ", "q", " ", "|", " ", "A:", " ", "1", " ", "|", " ",
      "B:", " ", "2", " ", "|", " ", "C:", " ", "3", " ", "|", " ", "Answer:", " ", "2">>,
    <<"j", "|", "k">> }

Gen3Texts == { <<"p">> }

\* s.replace(tok, "")
Remove(s, tok) == SelectSeq(s, LAMBDA c : c # tok)

HasPipe(line) == Contains(line, "|")

\* server.py:168-175
ParseFlashcards(raw_extras) ==
  IF ~Contains(raw_extras, "===FLASHCARDS===") THEN << >>
  ELSE LET section == Split(Split(raw_extras, "===FLASHCARDS===")[2], "===QUIZ===")[1]
           lines == SelectSeq(SplitLines(section), HasPipe)
       IN  [i \in 1..Len(lines) |->
              LET p == Split(lines[i], "|")
              IN  [front |-> Strip(Remove(p[1], "Front:")),
                   back |-> Strip(Remove(p[2], "Back:"))]]

QuizLine(line) == Contains(line, "|") /\ Contains(line, "Q:") /\ Len(Split(line, "|")) >= 5

\* server.py:177-185
ParseQuiz(raw_extras) ==
  IF ~Contains(raw_extras, "===QUIZ===") THEN << >>
  ELSE LET lines == SelectSeq(SplitLines(Split(raw_extras, "===QUIZ===")[2]), QuizLine)
       IN  [i \in 1..Len(lines) |->
              LET p == Split(lines[i], "|")
              IN  [question |-> Strip(Remove(p[1], "Q:")),
                   options |-> StripAll(SubSeq(p, 2, Len(p) - 1)),
                   answer |-> Strip(Remove(p[Len(p)], "Answer:"))]]

\* An exception that leaves the handler: the framework answers 500.
Raise(r, name) == Return(r, [status |-> 500, body |-> [exception |-> name]])

\* Stage 1 with `notes_text = parts[-1].strip()`: no full-text fallback.
Stage1LastPart(r) ==
  /\ pc[r] = "g1"
  /\ log' = [log EXCEPT ![r] = Append(@, Ev("gen", 1, Prefix(g[r].text, NotesCeiling)))]
  /\ \E raw_notes \in try_generate(Gen1Texts) :
       IF raw_notes = None
         THEN /\ Raise(r, "TypeError")
              /\ g' = [g EXCEPT ![r].raw_notes = raw_notes]
         ELSE IF Contains(raw_notes, "Error:")
           THEN /\ Return(r, [status |-> 200, body |-> [error |-> raw_notes]])
                /\ g' = [g EXCEPT ![r].raw_notes = raw_notes]
           ELSE LET parts == Split(raw_notes, "===SPLIT===") IN
                  /\ g' = [g EXCEPT ![r].raw_notes = raw_notes,
                                    ![r].summary = Strip(parts[1]),
                                    ![r].notes = Strip(parts[Len(parts)])]
                  /\ pc' = [pc EXCEPT ![r] = "g2"]
                  /\ UNCHANGED <<resp, loop, own>>
  /\ UNCHANGED <<inp, vid, bi, transcript, h, vtt, tmp>>
  /\ UNCHANGED pvars

\* server.py:151-156  stage 1: notes and summary.  `"Error:" in raw_notes` is a
\* substring test, and raises TypeError when raw_notes is None.
Stage1(r) ==
  /\ pc[r] = "g1"
  /\ log' = [log EXCEPT ![r] = Append(@, Ev("gen", 1, Prefix(g[r].text, NotesCeiling)))]
  /\ \E raw_notes \in try_generate(Gen1Texts) :
       IF raw_notes = None
         THEN /\ Raise(r, "TypeError")
              /\ g' = [g EXCEPT ![r].raw_notes = raw_notes]
         ELSE IF Contains(raw_notes, "Error:")
           THEN /\ Return(r, [status |-> 200, body |-> [error |-> raw_notes]])
                /\ g' = [g EXCEPT ![r].raw_notes = raw_notes]
           ELSE LET parts == Split(raw_notes, "===SPLIT===") IN
                  /\ g' = [g EXCEPT ![r].raw_notes = raw_notes,
                                    ![r].summary = Strip(parts[1]),
                                    ![r].notes = IF Len(parts) > 1 THEN Strip(parts[2])
                                                 ELSE raw_notes]
                  /\ pc' = [pc EXCEPT ![r] = "g2"]
                  /\ UNCHANGED <<resp, loop, own>>
  /\ UNCHANGED <<inp, vid, bi, transcript, h, vtt, tmp>>
  /\ UNCHANGED pvars

\* server.py:166-185  stage 2: study aids.  `"===FLASHCARDS===" in raw_extras`
\* stands outside the try blocks and raises TypeError when raw_extras is None.
Stage2(r) ==
  /\ pc[r] = "g2"
  /\ log' = [log EXCEPT ![r] = Append(@, Ev("gen", 2, Prefix(g[r].text, ExtrasCeiling)))]
  /\ \E raw_extras \in try_generate(Gen2Texts) :
       IF raw_extras = None
         THEN /\ Raise(r, "TypeError")
              /\ UNCHANGED g
         ELSE /\ g' = [g EXCEPT ![r].flashcards = ParseFlashcards(raw_extras),
                                ![r].quiz = ParseQuiz(raw_extras)]
              /\ pc' = [pc EXCEPT ![r] = "g3"]
              /\ UNCHANGED <<resp, loop, own>>
  /\ UNCHANGED <<inp, vid, bi, transcript, h, vtt, tmp>>
  /\ UNCHANGED pvars

\* server.py:199-201  stage 3: narration, and the bundle
Stage3(r) ==
  /\ pc[r] = "g3"
  /\ log' = [log EXCEPT ![r] = Append(@, Ev("gen", 3, g[r].summary))]
  /\ \E podcast_script \in try_generate(Gen3Texts) :
       Return(r, [status |-> 200,
                  body |-> [summary |-> g[r].summary, notes |-> g[r].notes,
                            flashcards |-> g[r].flashcards, quiz |-> g[r].quiz,
                            podcast |-> podcast_script,
                            raw_transcript |-> Prefix(g[r].text, RawCeiling)]])
  /\ UNCHANGED <<inp, vid, bi, transcript, g, h, vtt, tmp>>
  /\ UNCHANGED pvars

\* server.py:231-235
chat_with_context(r) ==
  /\ pc[r] = "chat"
  /\ log' = [log EXCEPT ![r] = Append(@, Ev("gen", 0, inp[r].text))]
  /\ \E answer \in try_generate(Gen3Texts) :
       Return(r, [status |-> 200, body |-> [answer |-> answer]])
  /\ UNCHANGED <<inp, vid, bi, transcript, g, h, vtt, tmp>>
  /\ UNCHANGED pvars

\* The response has been sent; the slot is free for the next request.
Deliver(r) ==
  /\ pc[r] = "done"
  /\ pc' = [pc EXCEPT ![r] = "idle"]
  /\ inp' = [inp EXCEPT ![r] = NoInput]
  /\ vid' = [vid EXCEPT ![r] = None]
  /\ bi' = [bi EXCEPT ![r] = 0]
  /\ transcript' = [transcript EXCEPT ![r] = None]
  /\ g' = [g EXCEPT ![r] = NoGen]
  /\ h' = [h EXCEPT ![r] = FALSE]
  /\ resp' = [resp EXCEPT ![r] = NoResp]
  /\ log' = [log EXCEPT ![r] = << >>]
  /\ UNCHANGED <<loop, vtt, tmp, own>>
  /\ UNCHANGED pvars

Next ==
  \E r \in Reqs :
    \/ get_client(r)
    \/ get_transcript(r)
    \/ ProviderA(r)
    \/ ProxyMeta(r)
    \/ ProxyCaption(r)
    \/ YtDlpPrepare(r)
    \/ YtDlpRun(r)
    \/ YtDlpRead(r)
    \/ analyze_video(r)
    \/ PdfOpen(r)
    \/ PdfResume(r)
    \/ PdfWrite(r)
    \/ PdfExtract(r)
    \/ Stage1(r)
    \/ Stage2(r)
    \/ Stage3(r)
    \/ chat_with_context(r)
    \/ Deliver(r)

Spec == Init /\ [][Next]_<<vars, pvars>>

TypeOK ==
  /\ loop \in 0..NumReqs
  /\ \A r \in Reqs : inp[r] \in Inputs \cup {NoInput}

\* ------------------------------------- the parsing functions on their own
\* The text parsers are pure functions of one string.  ParseSpec applies each
\* of them alone to every text of at most MaxLines lines over a small stock
\* of lines.
MaxLines == 3

SeqsUpTo(S, n) == UNION { [1..k -> S] : k \in 0..n }

\* server.py:72  vtt_text / server.py:106  content: lines of a subtitle file
VttLines ==
  { <<"a">>, <<"b">>, <<" ", "a", " ">>, << >>,
    <<"0", " ", "-->", " ", "1">>,
    <<"WEBVTT">>, <<"Kind:", " ", "c">>, <<"Language:", " ", "e">> }

VttTexts == { Join(ls, "\n") : ls \in SeqsUpTo(VttLines, MaxLines) }

\* server.py:166  raw_extras: lines of a stage-2 completion, seen by the
\* flashcard parser
CardLines ==
  { <<"===FLASHCARDS===">>, <<"===QUIZ===">>,
    <<"Front:", " ", "f", " ", "|", " ", "Back:", " ", "b">>,
    <<"f", "|", "b", " ", "|", " ", "c">>,
    <<" ", "Front:", "g", "|", "Back:", "d", " ">>,
    <<"x">> }

CardTexts == { Join(ls, "\n") : ls \in SeqsUpTo(CardLines, MaxLines) }

\* server.py:166  raw_extras: lines of a stage-2 completion, seen by the quiz
\* parser
QuizLines ==
  { <<"===QUIZ===">>,
    <<"Q:", " ", "q", " ", "|", " ", "A:", " ", "1", " ", "|", " ", "B:", " ", "2",
      " ", "|", " ", "C:", " ", "3", " ", "|", " ", "Answer:", " ", "2">>,
    <<"q", "|", "1", "|", "2", "|", "3", "|", "2">>,
    <<"Q:", "q", "|", "1", "|", "2", "|", "2">>,
    <<"Q:", "q", "|", "1", "|", "2", "|", "3", "|", "4", "|", "Answer:", "2">>,
    <<"Q:", " ", "x">> }

QuizTexts == { Join(ls, "\n") : ls \in SeqsUpTo(QuizLines, MaxLines) }

ParseInit ==
  /\ ServerInit
  /\ fnout = << >>
  /\ fnret = FALSE
  /\ \/ fn \in {"fetch_invidious_transcript", "get_transcript"} /\ fnarg \in VttTexts
     \/ fn = "flashcards" /\ fnarg \in CardTexts
     \/ fn = "quiz" /\ fnarg \in QuizTexts

\* server.py:72-75
ApplyProxyParse ==
  /\ fn = "fetch_invidious_transcript"
  /\ ~fnret
  /\ fnout' = ProxyParse(fnarg)
  /\ fnret' = TRUE
  /\ UNCHANGED <<fn, fnarg, vars>>

\* server.py:106-109
ApplyVttParse ==
  /\ fn = "get_transcript"
  /\ ~fnret
  /\ fnout' = VttParse(fnarg)
  /\ fnret' = TRUE
  /\ UNCHANGED <<fn, fnarg, vars>>

\* server.py:168-175
ApplyParseFlashcards ==
  /\ fn = "flashcards"
  /\ ~fnret
  /\ fnout' = ParseFlashcards(fnarg)
  /\ fnret' = TRUE
  /\ UNCHANGED <<fn, fnarg, vars>>

\* server.py:177-185
ApplyParseQuiz ==
  /\ fn = "quiz"
  /\ ~fnret
  /\ fnout' = ParseQuiz(fnarg)
  /\ fnret' = TRUE
  /\ UNCHANGED <<fn, fnarg, vars>>

ParseNext ==
  \/ ApplyProxyParse
  \/ ApplyVttParse
  \/ ApplyParseFlashcards
  \/ ApplyParseQuiz

ParseSpec == ParseInit /\ [][ParseNext]_<<vars, pvars>>

\* ------------------------------------------------------------------ claims
\* The provider calls of a log: Provider A, the proxy instances, yt-dlp.
Calls(l) == SelectSeq(l, LAMBDA e : e.op \in {"A", "B", "ytdlp"})

\* The place of a provider call in the fixed order A, B1..Bn, C.
Rank(e) ==
  CASE e.op = "A" -> 0
    [] e.op = "B" -> e.n
    [] OTHER -> NumInstances + 1

\* The normalized text a provider call of log l yielded, None if it declined.
Yield(l, e) ==
  CASE e.op = "A" -> IF e.arg = None THEN None ELSE clean_text(e.arg)
    [] e.op = "B" -> IF e.arg = None THEN None ELSE clean_text(ProxyParse(e.arg))
    [] OTHER ->
         IF \E j \in 1..Len(l) : l[j].op = "read_vtt" /\ l[j].arg # None
           THEN VttParse(l[CHOOSE j \in 1..Len(l) : l[j].op = "read_vtt" /\ l[j].arg # None].arg)
           ELSE None

\* Where a handler stands while get_transcript runs ("av": it has returned).
ChainPcs == {"gt", "A", "Bmeta", "Bcap", "Cpre", "Crun", "Cread"}

\* The completion calls of generate_study_data in a log.
Gens(l) == SelectSeq(l, LAMBDA e : e.op = "gen" /\ e.n >= 1)

BundleFields == {"summary", "notes", "flashcards", "quiz", "podcast", "raw_transcript"}

\* C1: get_transcript calls the providers in the order A, proxy instances in
\* list order, yt-dlp, each at most once; no provider or instance is called
\* after one that yielded text; the text returned is the normalized output of
\* the last provider called and of no other.
C1_ChainOrder ==
  \A r \in Reqs :
    pc[r] \in ChainPcs \cup {"av", "hung"} =>
      LET c == Calls(log[r]) IN
        /\ \A i \in 1..(Len(c) - 1) : Rank(c[i]) < Rank(c[i + 1])
        /\ c # <<>> => c[1].op = "A"
        /\ \A i \in 1..(Len(c) - 1) : ~Truthy(Yield(log[r], c[i]))
        /\ (pc[r] = "av" /\ c # <<>>) =>
             /\ transcript[r] \in {None, <<>>, Yield(log[r], c[Len(c)])}
             /\ Truthy(Yield(log[r], c[Len(c)])) => transcript[r] = Yield(log[r], c[Len(c)])
        /\ (pc[r] = "av" /\ c = <<>>) => transcript[r] = None

\* C1 witness: A and every proxy instance declined, yt-dlp wrote subtitles and
\* get_transcript returned their text.
C1_Witness ==
  \E r \in Reqs :
    /\ pc[r] = "av"
    /\ Truthy(transcript[r])
    /\ Len(Calls(log[r])) = NumInstances + 2
    /\ log[r][Len(log[r])].op = "rm_vtt"

\* C2: get_transcript returns an absent or empty result for a resolvable
\* video id only after Provider A, Provider B and Provider C have all been
\* tried.
C2_AllTriedBeforeAbsent ==
  \A r \in Reqs :
    (pc[r] = "av" /\ vid[r] # None /\ ~Truthy(transcript[r])) =>
      \A op \in {"A", "B", "ytdlp"} : \E i \in 1..Len(log[r]) : log[r][i].op = op

\* C3: the completion calls of generate_study_data are stage 1, 2, 3 in this
\* order; a stage-1 output with the failure marker gives exactly {error} after
\* one call; a stage-1 output without it is followed by exactly three calls,
\* the third on the stage-1 summary.
C3_StagesSequential ==
  \A r \in Reqs :
    LET gens == Gens(log[r]) IN
      /\ \A i \in 1..Len(gens) : gens[i].n = i
      /\ (pc[r] = "done" /\ gens # <<>> /\ Contains(g[r].raw_notes, "Error:")) =>
           /\ Len(gens) = 1
           /\ DOMAIN resp[r].body = {"error"}
           /\ resp[r].body.error = g[r].raw_notes
      /\ (pc[r] = "done" /\ gens # <<>> /\ g[r].raw_notes # None
            /\ ~Contains(g[r].raw_notes, "Error:")) =>
           /\ Len(gens) = 3
           /\ gens[3].arg = g[r].summary

\* C4: once stage 1 has succeeded generate_study_data returns the bundle with
\* all six fields, whatever stages 2 and 3 give; every value it returns is
\* exactly {error} or has the six fields.
C4_BundleOrError ==
  \A r \in Reqs :
    (pc[r] = "done" /\ Gens(log[r]) # <<>>) =>
      /\ (g[r].raw_notes # None /\ ~Contains(g[r].raw_notes, "Error:")) =>
           /\ resp[r].status = 200
           /\ DOMAIN resp[r].body = BundleFields
      /\ resp[r].status = 200 =>
           DOMAIN resp[r].body \in {{"error"}, BundleFields}

\* C5: when no handler is running (every analyze_pdf and get_transcript call
\* has finished), neither transcript.en.vtt nor a temp_<filename> file exists.
C5_TempFilesGone ==
  (\A r \in Reqs : pc[r] \in {"idle", "done"}) =>
    /\ ~vtt.present
    /\ \A f \in FileNames : ~tmp[f].present

\* C6: a request whose credential is missing, empty, "null" or shorter than
\* 10 characters is answered 401 and has made no provider call, completion
\* call, process launch or file operation.
C6_AuthGate ==
  \A r \in Reqs :
    (/\ inp[r].kind \in Kinds
     /\ \/ inp[r].cred \in {None, <<>>, <<"n", "u", "l", "l">>}
        \/ Len(inp[r].cred) < MinKeyLen) =>
      /\ pc[r] = "done"
      /\ resp[r].status = 401
      /\ log[r] = <<>>

\* C6 witness: a document upload with a 9-character credential was rejected.
C6_Witness ==
  \E r \in Reqs :
    /\ inp[r].kind = "pdf"
    /\ Len(inp[r].cred) = MinKeyLen - 1
    /\ resp[r].status = 401

FileOps == {"rm_vtt", "read_vtt", "open_tmp", "write_tmp", "read_tmp", "rm_tmp"}

\* C7: no request operates on a temp file that another in-flight request
\* created, and a document request whose upload is readable and was written
\* without error is not answered 400.
C7_NoCrossRequestFiles ==
  \A r \in Reqs :
    /\ \A i \in 1..Len(log[r]) :
         log[r][i].op \in FileOps => log[r][i].n \in {0, r}
    /\ (pc[r] = "done" /\ inp[r].kind = "pdf" /\ resp[r].status = 400) =>
         ~Truthy(extract_pdf_text([present |-> TRUE, data |-> inp[r].doc]))

\* C8: for a URL for which get_video_id returns None, get_transcript returns
\* None at once: the request makes no provider call and no file operation.
C8_NoIdNoProvider ==
  \A r \in Reqs :
    (inp[r].kind = "video" /\ ~BadKey(inp[r].cred) /\ get_video_id(inp[r].url) = None) =>
      /\ pc[r] \in {"gt", "av", "done"}
      /\ log[r] = <<>>
      /\ pc[r] \in {"av", "done"} => transcript[r] = None

\* C8 witness: get_transcript has returned for a URL without a video id.
C8_Witness ==
  \E r \in Reqs :
    /\ pc[r] = "av"
    /\ inp[r].kind = "video"
    /\ get_video_id(inp[r].url) = None

\* C9: no step of get_transcript ends the request: a provider or instance
\* that declines is followed by the next one, and a video request that ends
\* without a transcript ends with 422.
C9_DeclineContinues ==
  [][\A r \in Reqs :
       (pc'[r] # pc[r] \/ bi'[r] # bi[r]) =>
         /\ pc[r] \in ChainPcs => pc'[r] \in ChainPcs \cup {"av", "hung"}
         /\ (pc[r] = "A" /\ pc'[r] \notin {"av", "hung"}) =>
              (pc'[r] = "Bmeta" /\ bi'[r] = 1)
         /\ (pc[r] = "Bmeta" /\ pc'[r] # "Bcap") =>
              IF bi[r] < NumInstances
                THEN pc'[r] = "Bmeta" /\ bi'[r] = bi[r] + 1
                ELSE pc'[r] = "Cpre"
         /\ (pc[r] = "Bcap" /\ pc'[r] \notin {"av", "Cpre"}) =>
              (bi[r] < NumInstances /\ pc'[r] = "Bmeta" /\ bi'[r] = bi[r] + 1)
         /\ (pc[r] = "av" /\ pc'[r] = "done") =>
              (resp'[r].status = 422 /\ ~Truthy(transcript[r]))
         /\ (pc[r] = "av" /\ ~Truthy(transcript[r])) => resp'[r].status = 422
    ]_vars

\* C9 witness: every provider declined and the request was answered 422.
C9_Witness ==
  \E r \in Reqs :
    /\ pc[r] = "done"
    /\ resp[r].status = 422
    /\ Len(Calls(log[r])) = NumInstances + 2

\* C10: get_transcript never stays inside an external call: no handler is
\* ever blocked in a call that does not return and has no timeout.
C10_EveryCallBounded == \A r \in Reqs : pc[r] # "hung"

\* ---------------------------------------------------------------- C11
\* The cue lines of a payload: its lines that are no timing line, not blank
\* and no header line, each stripped.
C11_Header(l) ==
  StartsWith(l, "WEBVTT") \/ StartsWith(l, "Kind:") \/ StartsWith(l, "Language:")

C11_IsCue(l) == ~Contains(l, "-->") /\ Strip(l) # << >> /\ ~C11_Header(l)

C11_CueLines(text) == StripAll(SelectSeq(SplitLines(text), C11_IsCue))

\* every run of consecutive equal elements collapsed to one element
RECURSIVE C11_CollapseRuns(_)
C11_CollapseRuns(xs) ==
  IF Len(xs) <= 1 THEN xs
  ELSE IF xs[1] = xs[2] THEN C11_CollapseRuns(Tail(xs))
  ELSE <<xs[1]>> \o C11_CollapseRuns(Tail(xs))

\* C11: the cue-line extractor of Provider B and of Provider C returns the cue
\* lines of the payload in order, every run of consecutive identical lines
\* collapsed to one and a later, non-consecutive recurrence kept; no timing
\* line, blank line or header line (WEBVTT, Kind:, Language:) is in the
\* output; both providers apply this one rule (Provider C normalizes the
\* joined text afterwards).
C11_CueLineRule ==
  fnret =>
    /\ fn = "fetch_invidious_transcript" =>
         fnout = Join(C11_CollapseRuns(C11_CueLines(fnarg)), " ")
    /\ fn = "get_transcript" =>
         fnout = clean_text(Join(C11_CollapseRuns(C11_CueLines(fnarg)), " "))

\* ---------------------------------------------------------------- C12
\* An option field with its "A:" / "B:" / "C:" label prefix stripped, trimmed.
C12_Option(field) ==
  LET t == Strip(field)
  IN  IF t # << >> /\ t[1] \in {"A:", "B:", "C:"} THEN Strip(Tail(t)) ELSE t

C12_Item(line) ==
  LET p == Split(line, "|")
  IN  [question |-> Strip(Remove(p[1], "Q:")),
       options |-> [i \in 1..(Len(p) - 2) |-> C12_Option(p[i + 1])],
       answer |-> Strip(Remove(p[Len(p)], "Answer:"))]

C12_Section(raw) ==
  IF Contains(raw, "===QUIZ===") THEN SplitLines(Split(raw, "===QUIZ===")[2]) ELSE << >>

C12_IsItem(line) ==
  Contains(line, "|") /\ Contains(line, "Q:") /\ Len(Split(line, "|")) >= 5

\* C12: the quiz parser returns, in line order, one item for every line of
\* the quiz section that has a pipe, "Q:" and at least five pipe-separated
\* fields: question = first field without "Q:", options = the middle fields
\* trimmed with their "A:"/"B:"/"C:" label prefixes stripped, answer = last
\* field without "Answer:"; every other line is skipped.
C12_QuizItems ==
  (fn = "quiz" /\ fnret) =>
    LET lines == SelectSeq(C12_Section(fnarg), C12_IsItem)
    IN  fnout = [i \in 1..Len(lines) |-> C12_Item(lines[i])]

\* ---------------------------------------------------------------- C13
\* A field with its label prefix stripped, trimmed.
C13_Unlabel(field, label) ==
  LET t == Strip(field)
  IN  IF StartsWith(t, label) THEN Strip(Tail(t)) ELSE t

\* The lines between the flashcards marker and the quiz marker (or the end).
C13_Section(raw) ==
  IF ~Contains(raw, "===FLASHCARDS===") THEN << >>
  ELSE LET after == Join(Tail(Split(raw, "===FLASHCARDS===")), "===FLASHCARDS===")
       IN  SplitLines(Split(after, "===QUIZ===")[1])

C13_Card(line) ==
  LET p == Split(line, "|")
  IN  [front |-> C13_Unlabel(p[1], "Front:"),
       back |-> C13_Unlabel(Join(Tail(p), "|"), "Back:")]

C13_HasPipe(line) == Contains(line, "|")

\* C13: the flashcard parser returns, in line order, exactly one flashcard
\* for every line of the flashcards section that has a pipe (and none for any
\* other line or any line outside the section): front = the text before the
\* first pipe, back = the text after that pipe, each trimmed with its
\* "Front:" / "Back:" label prefix stripped.
C13_Flashcards ==
  (fn = "flashcards" /\ fnret) =>
    LET lines == SelectSeq(C13_Section(fnarg), C13_HasPipe)
    IN  fnout = [i \in 1..Len(lines) |-> C13_Card(lines[i])]

\* ---------------------------------------------------------------- C14
\* The text of s before its first separator token (all of s without one).
C14_Before(s) ==
  IF Contains(s, "===SPLIT===")
    THEN SubSeq(s, 1, (CHOOSE i \in 1..Len(s) :
                         s[i] = "===SPLIT===" /\ \A j \in 1..(i - 1) : s[j] # "===SPLIT===") - 1)
    ELSE s

\* The text of s after its first separator token.
C14_After(s) == SubSeq(s, Len(C14_Before(s)) + 2, Len(s))

\* Stage 1 has parsed its completion and generation goes on.
C14_Parsed(r) == pc[r] \in {"g2", "g3"}

\* C14 as stated: the summary is the trimmed text before the first separator;
\* with a separator the notes are the trimmed second segment; without one
\* the summary and the notes are both the raw text.
C14_Stage1Parse ==
  \A r \in Reqs :
    C14_Parsed(r) =>
      LET raw == g[r].raw_notes
      IN  IF Contains(raw, "===SPLIT===")
            THEN /\ g[r].summary = Strip(C14_Before(raw))
                 /\ g[r].notes = Strip(C14_Before(C14_After(raw)))
            ELSE /\ g[r].summary = raw
                 /\ g[r].notes = raw

\* C14 amended: the summary is always the trimmed text before the first
\* separator (the trimmed raw text when there is none); with a separator the
\* notes are the trimmed second segment, without one the notes are the raw
\* text unchanged; a completion without the failure marker never yields the
\* error variant.
C14_Stage1ParseTrimmed ==
  \A r \in Reqs :
    /\ C14_Parsed(r) =>
         LET raw == g[r].raw_notes
         IN  /\ g[r].summary = Strip(C14_Before(raw))
             /\ g[r].notes = IF Contains(raw, "===SPLIT===")
                               THEN Strip(C14_Before(C14_After(raw)))
                               ELSE raw
    /\ (pc[r] = "done" /\ resp[r].status = 200 /\ "error" \in DOMAIN resp[r].body) =>
         Contains(g[r].raw_notes, "Error:")

\* Stage 1 has parsed a completion without separator that has whitespace at
\* an end.
C14_Witness ==
  \E r \in Reqs :
    /\ C14_Parsed(r)
    /\ ~Contains(g[r].raw_notes, "===SPLIT===")
    /\ Strip(g[r].raw_notes) # g[r].raw_notes
    /\ g[r].notes = g[r].raw_notes

\* ---------------------------------------------------------------- C15
\* The proxy instances a request has tried, in the order of the tries.
C15_Tried(r) == SelectSeq(log[r], LAMBDA e : e.op = "B")

\* fetch_invidious_transcript has returned nothing and Provider C is at work.
C15_ProxyGaveUp(r) == pc[r] \in {"Cpre", "Crun", "Cread"}

\* C15: Provider B tries its endpoints in list order and returns on the first
\* whose result is non-empty: an endpoint that answers 200 with a payload
\* without cue lines counts as failed and the next one is tried, so Provider
\* B returns nothing only after all endpoints have been tried.
C15_FirstNonEmptyEndpoint ==
  \A r \in Reqs :
    pc[r] \in ChainPcs =>
      LET b == C15_Tried(r) IN
        /\ \A i \in 1..Len(b) : b[i].n = i
        /\ \A i \in 1..(Len(b) - 1) : ~Truthy(Yield(log[r], b[i]))
        /\ C15_ProxyGaveUp(r) => Len(b) = NumInstances

\* ---------------------------------------------------------------- C16
\* generate_study_data has returned to its handler.
C16_Returned(r) == pc[r] = "done" /\ resp[r].status = 200 /\ Gens(log[r]) # << >>

\* C16: generate_study_data returns the error variant exactly when the
\* stage-1 result begins with the failure marker "Error:"; a stage-1 text
\* that has "Error:" somewhere after its start is parsed like any other.
C16_FailureMarkerPrefix ==
  \A r \in Reqs :
    C16_Returned(r) =>
      ("error" \in DOMAIN resp[r].body <=> StartsWith(g[r].raw_notes, "Error:"))

\* ---------------------------------------------------------------- C17
\* C17: the text handed to generate_study_data is whitespace-collapsed and
\* non-empty on every request path; an empty or whitespace-only source is
\* rejected before any completion call.
C17_SourceTextNormalized ==
  \A r \in Reqs :
    (pc[r] \in {"g1", "g2", "g3"} \/ Gens(log[r]) # << >>) =>
      /\ g[r].text # << >>
      /\ g[r].text = clean_text(g[r].text)

\* ---------------------------------------------------------------- C18
\* text += page.extract_text() + "\n" over all pages
RECURSIVE C18_AllPages(_)
C18_AllPages(pages) ==
  IF pages = << >> THEN << >>
  ELSE Head(pages) \o <<"\n">> \o C18_AllPages(Tail(pages))

\* The document cannot be opened or one of its pages fails to extract.
C18_Unreadable(doc) == ~doc.ok \/ \E i \in 1..Len(doc.pages) : doc.pages[i] = None

\* extract_pdf_text has run for r and r has not gone on to generation.
C18_Extracted(r) == \E i \in 1..Len(log[r]) : log[r][i].op = "read_tmp"

\* C18: extract_pdf_text returns the normalized concatenation of the text of
\* all pages only if every page extracted; for a document that cannot be
\* opened or with a failing page it returns None, no partial text, and
\* analyze_pdf answers 400 without any completion call.
C18_AllPagesOrNothing ==
  \A r \in Reqs :
    inp[r].kind = "pdf" =>
      /\ (pc[r] \in {"g1", "g2", "g3"} \/ Gens(log[r]) # << >>) =>
           /\ ~C18_Unreadable(inp[r].doc)
           /\ g[r].text = clean_text(C18_AllPages(inp[r].doc.pages))
      /\ (C18_Unreadable(inp[r].doc) /\ C18_Extracted(r)) =>
           /\ transcript[r] = None
           /\ pc[r] = "done"
           /\ resp[r].status = 400
           /\ Gens(log[r]) = << >>

\* C18 witness: a document whose second page fails to extract was answered
\* with 400.
C18_Witness ==
  \E r \in Reqs :
    /\ inp[r].kind = "pdf"
    /\ inp[r].doc.ok
    /\ C18_Unreadable(inp[r].doc)
    /\ C18_Extracted(r)
    /\ resp[r].status = 400

\* ---------------------------------------------------------------- C19
\* The subtitle files r has read.
C19_Reads(r) == SelectSeq(log[r], LAMBDA e : e.op = "read_vtt")

\* C19: get_transcript invocations do not overlap, and the text Provider C
\* returns comes only from the subtitle file the yt-dlp run of the same
\* invocation wrote: a transcript.en.vtt left by an earlier invocation is
\* removed before yt-dlp is launched and is never read or returned.
C19_OwnSubtitlesOnly ==
  \A r \in Reqs :
    /\ pc[r] \in ChainPcs => \A q \in Reqs \ {r} : pc[q] \notin ChainPcs
    /\ pc[r] = "Crun" => ~vtt.present
    /\ pc[r] = "Cread" => vtt.present /\ own[VttPath] = r
    /\ pc[r] \in ChainPcs \cup {"av"} =>
         /\ \A i \in 1..Len(C19_Reads(r)) : C19_Reads(r)[i].n = r
         /\ (pc[r] = "av" /\ transcript[r] # None /\ C19_Reads(r) # << >>) =>
              transcript[r] = VttParse(C19_Reads(r)[1].arg)

\* C19 witness: Provider C found a subtitle file of an earlier invocation,
\* removed it, ran yt-dlp and returned the text of the new file.
C19_Witness ==
  \E r \in Reqs :
    /\ pc[r] = "av"
    /\ Truthy(transcript[r])
    /\ C19_Reads(r) # << >>
    /\ \E i \in 1..Len(log[r]) :
         /\ log[r][i].op = "rm_vtt"
         /\ log[r][i].n = 0
         /\ \E j \in (i + 1)..Len(log[r]) : log[r][j].op = "ytdlp"

====
